---- MODULE Spec2Model ----
\* Model of app.py, the Streamlit page "GBC Occult Metastasis Assessor".
\*
\* Streamlit executes the script from its first line to its last on every
\* browser event (page load, widget change, button click).  One action of this
\* model is therefore one complete script run.  State that survives a run:
\*   - the process-wide st.cache_resource entry of load_model,
\*   - the session's widget values,
\*   - what the browser shows after the run,
\* plus the artifact file on disk, which belongs to the environment.
\*
\* Units: LNR is counted in hundredths (the slider's step), probabilities in
\* ten-thousandths, so 0.546 is 5460 and 0.30 is 3000.
EXTENDS Integers, Sequences, FiniteSets, TLC

\* ------------------------------------------------------------------ state ---
VARIABLES
  artifact,    \* the file GBC_LNR_XGB_Model.pkl on disk
  cache,       \* st.cache_resource entry of load_model (NoClf when empty)
  age, sex, t_stage, lnr,   \* widget values of the session
  screen,      \* what the last script run rendered
  lastRun,     \* log of the last script run
  remembered   \* one earlier prediction kept for comparison with later ones

vars == <<artifact, cache, age, sex, t_stage, lnr, screen, lastRun, remembered>>

\* ---------------------------------------------------------------- bounds ----
\* Ages modelled: within AgeRadius of the minimum, the default and the maximum.
AgeRadius == 0
\* LNR values modelled: within LnrRadius of 0.00, 0.10, 0.30 and 1.00.
LnrRadius == 0
\* Number of distinct classifiers an artifact file may contain.
NumClassifiers == 2

\* ------------------------------------------------------ program constants ---
MinAge == 18
MaxAge == 100
DefaultAge == 65
MinLnr == 0
MaxLnr == 100
DefaultLnr == 30
OPTIMAL_THRESHOLD == 5460

\* An LNR used by the documented scenario (0.10).
ScenarioLnr == 10

SexOptions == <<"Female", "Male">>

\* Faulty variant: a selectbox option that t_code_map does not know.
TOptions_extra == <<"T1", "T2", "T3", "T4", "T5">>

TOptions == <<"T1", "T2", "T3", "T4">>

Range(f) == {f[i] : i \in DOMAIN f}

Near(x, c, r) == x - c <= r /\ c - x <= r

\* st.sidebar.number_input(min_value=18, max_value=100, step=1)
AgeDomain == MinAge .. MaxAge
\* st.sidebar.slider(min_value=0.0, max_value=1.0, step=0.01)
LnrDomain == MinLnr .. MaxLnr

AgeValues ==
  {a \in AgeDomain : Near(a, MinAge, AgeRadius) \/ Near(a, DefaultAge, AgeRadius)
                     \/ Near(a, MaxAge, AgeRadius)}

LnrValues ==
  {l \in LnrDomain : Near(l, MinLnr, LnrRadius) \/ Near(l, ScenarioLnr, LnrRadius)
                     \/ Near(l, DefaultLnr, LnrRadius) \/ Near(l, MaxLnr, LnrRadius)}

\* Widget values offered in the specification that compares two runs.
IdemAges == {DefaultAge, DefaultAge + 1}

IdemLnrs == {ScenarioLnr, DefaultLnr}

\* ----------------------------------------------------------- the artifact ---
NoClf == -1

Classifiers == 0 .. (NumClassifiers - 1)

Artifacts ==
  {[kind |-> "ok", clf |-> k] : k \in Classifiers}
    \cup {[kind |-> k, clf |-> NoClf] : k \in {"missing", "corrupt", "incompatible"}}

\* joblib.load("GBC_LNR_XGB_Model.pkl"): the unpickled object, or the exception.
joblib_load(f) ==
  CASE f.kind = "ok"           -> [raised |-> "none", obj |-> f.clf]
    [] f.kind = "missing"      -> [raised |-> "FileNotFoundError", obj |-> NoClf]
    [] f.kind = "corrupt"      -> [raised |-> "UnpicklingError", obj |-> NoClf]
    [] f.kind = "incompatible" -> [raised |-> "AttributeError", obj |-> NoClf]

\* Faulty variant: the handler shows the error but does not call st.stop().
load_model_body_nostop(f) ==
  LET r == joblib_load(f)
  IN  IF r.raised = "none"
        THEN [model |-> r.obj, error |-> FALSE, stop |-> FALSE, raised |-> "none"]
        ELSE IF r.raised = "FileNotFoundError"
          THEN [model |-> NoClf, error |-> TRUE, stop |-> FALSE, raised |-> "none"]
          ELSE [model |-> NoClf, error |-> FALSE, stop |-> FALSE, raised |-> r.raised]

\* Body of load_model: only FileNotFoundError has a handler, which shows
\* st.error and calls st.stop(); any other exception leaves the function.
load_model_body(f) ==
  LET r == joblib_load(f)
  IN  IF r.raised = "none"
        THEN [model |-> r.obj, error |-> FALSE, stop |-> FALSE, raised |-> "none"]
        ELSE IF r.raised = "FileNotFoundError"
          THEN [model |-> NoClf, error |-> TRUE, stop |-> TRUE, raised |-> "none"]
          ELSE [model |-> NoClf, error |-> FALSE, stop |-> FALSE, raised |-> r.raised]

\* Faulty variant: load_model without the decorator, the body runs every time.
cache_resource_off(c, f) ==
  LET b == load_model_body(f)
  IN  [model |-> b.model, error |-> b.error, stop |-> b.stop, raised |-> b.raised,
       read |-> TRUE,
       cache |-> IF b.raised = "none" /\ ~b.stop THEN b.model ELSE c]

\* @st.cache_resource around load_model: a stored value is returned without
\* running the body; a value is stored only when the body returns.
cache_resource(c, f) ==
  IF c # NoClf
    THEN [model |-> c, error |-> FALSE, stop |-> FALSE, raised |-> "none",
          read |-> FALSE, cache |-> c]
    ELSE LET b == load_model_body(f)
         IN  [model |-> b.model, error |-> b.error, stop |-> b.stop,
              raised |-> b.raised, read |-> TRUE,
              cache |-> IF b.raised = "none" /\ ~b.stop THEN b.model ELSE NoClf]

\* ------------------------------------------------------------ the encoder ---
feature_names == <<"Age_Numeric", "Sex_Code", "T_Code", "LNR">>

t_code_map == ("T1" :> 1) @@ ("T2" :> 2) @@ ("T3" :> 3) @@ ("T4" :> 4)

\* Faulty variant: the two codes exchanged.
sex_code_of_swapped(s) == IF s = "Male" THEN 0 ELSE 1

\* sex_code = 1 if sex == "Male" else 0
sex_code_of(s) == IF s = "Male" THEN 1 ELSE 0

NoData == <<>>

\* pd.DataFrame([[age, sex_code, t_code, lnr]], columns=feature_names);
\* raised is "KeyError" when the T label has no entry in t_code_map.
input_data_of(a, s, t, l) ==
  IF t \in DOMAIN t_code_map
    THEN [raised |-> "none",
          df |-> [columns |-> feature_names,
                  row |-> <<a, sex_code_of(s), t_code_map[t], l>>]]
    ELSE [raised |-> "KeyError", df |-> NoData]

\* Value of the column called name, as a classifier that binds by name reads it.
Col(df, name) ==
  LET i == CHOOSE j \in DOMAIN df.columns : df.columns[j] = name IN df.row[i]

\* --------------------------------------------------------- the classifier ---
\* The unpickled classifier is opaque.  It is modelled as a deterministic
\* function of the feature values; classifier k is one of NumClassifiers such
\* functions.  ProbLevels holds the probabilities they return: the documented
\* scenario values, the threshold and its two neighbours, both ends of [0,1]
\* and values whose percentage rounds down, up, and up with a carry.
ProbLevels == <<3000, 6000, 5460, 5459, 5461, 0, 10000, 1234, 9876, 9996>>

\* Faulty variant: a classifier whose answers change once an explanation has
\* been computed from it.
predict_proba_after_explain(k, df) ==
  ProbLevels[((Col(df, "Age_Numeric") + 2 * Col(df, "Sex_Code") + 3 * Col(df, "T_Code")
               + 5 * Col(df, "LNR") + 9 + k
               + (IF lastRun.explainArg # <<>> THEN 1 ELSE 0)) % Len(ProbLevels)) + 1]

predict_proba(k, df) ==
  ProbLevels[((Col(df, "Age_Numeric") + 2 * Col(df, "Sex_Code") + 3 * Col(df, "T_Code")
               + 5 * Col(df, "LNR") + 9 + k) % Len(ProbLevels)) + 1]

\* Faulty variant: the result block without the button test.
predict_btn_always(clicked) == TRUE

\* st.sidebar.button: True only in the run that its click triggered.
predict_btn(clicked) == clicked

\* ------------------------------------------------------------ the display ---
\* Faulty variant: the percentage rounded to a whole number.
FormatPct_nodecimal(p) ==
  LET q == p \div 100
      r == p % 100
  IN  ToString(IF r >= 50 THEN q + 1 ELSE q) \o "%"

\* f"{prob * 100:.1f}%": the percentage rounded to one decimal.  A probability
\* exactly halfway between two tenths of a percent is rounded by its binary
\* representation; no value of ProbLevels is such a tie.
FormatPct(p) ==
  LET q == p \div 10
      r == p % 10
      tenths == IF r >= 5 THEN q + 1 ELSE q
  IN  ToString(tenths \div 10) \o "." \o ToString(tenths % 10) \o "%"

BlankScreen ==
  [exception |-> "none", loadError |-> FALSE, header |-> FALSE, controls |-> FALSE,
   probText |-> "", probBox |-> "none", riskLabel |-> "none",
   recommendation |-> "none", plot |-> "none", welcome |-> FALSE, footer |-> FALSE]

\* Faulty variant: the threshold itself classified as low risk.
RiskBlock_strict(p) ==
  IF p > OPTIMAL_THRESHOLD
    THEN [probText |-> FormatPct(p), probBox |-> "error",
          riskLabel |-> "HIGH_RISK", recommendation |-> "intensive"]
    ELSE [probText |-> FormatPct(p), probBox |-> "success",
          riskLabel |-> "LOW_RISK", recommendation |-> "standard"]

\* Lines 111-123: the threshold rule and the three elements of column 1.
RiskBlock(p) ==
  IF p >= OPTIMAL_THRESHOLD
    THEN [probText |-> FormatPct(p), probBox |-> "error",
          riskLabel |-> "HIGH_RISK", recommendation |-> "intensive"]
    ELSE [probText |-> FormatPct(p), probBox |-> "success",
          riskLabel |-> "LOW_RISK", recommendation |-> "standard"]

\* Lines 132-148.  fail names the statement of the try block that raises:
\* "none", "explainer" (shap.TreeExplainer), "values" (explainer(input_data))
\* or "plot" (shap.plots.waterfall).  Every Exception is caught.
ShapFailures == {"none", "explainer", "values", "plot"}

\* Faulty variant: the SHAP statements without the try block.
ShapBlock_uncaught(fail) ==
  IF fail = "none"
    THEN [plot |-> "waterfall", raised |-> "none", explained |-> TRUE]
    ELSE [plot |-> "none", raised |-> "Exception",
          explained |-> fail \in {"values", "plot"}]

ShapBlock(fail) ==
  IF fail = "none"
    THEN [plot |-> "waterfall", raised |-> "none", explained |-> TRUE]
    ELSE [plot |-> "shap_error", raised |-> "none",
          explained |-> fail \in {"values", "plot"}]

NoRun ==
  [event |-> "none", fileRead |-> FALSE, fileKind |-> "unread", model |-> NoClf,
   steps |-> <<>>, input_data |-> NoData, inferArg |-> NoData,
   explainArg |-> NoData, shapFail |-> "none", prob |-> -1, recorded |-> FALSE]

NoMemory == [set |-> FALSE, input_data |-> NoData, prob |-> -1, riskLabel |-> "none"]

Init ==
  /\ artifact \in Artifacts
  /\ cache = NoClf
  /\ age = DefaultAge
  /\ sex = SexOptions[1]
  /\ t_stage = TOptions[1]
  /\ lnr = DefaultLnr
  /\ screen = BlankScreen
  /\ lastRun = NoRun
  /\ remembered = NoMemory

\* --------------------------------------------------------- one script run ---
\* The whole of app.py, run with widget values a, s, t, l and with the button
\* returning btn.  fail is the outcome of the SHAP block; rec tells whether the
\* prediction of this run is the one kept in remembered.
RunScript(event, a, s, t, l, clicked, fail, rec) ==
  LET btn       == predict_btn(clicked)                      \* line 81
      ld        == cache_resource(cache, artifact)           \* line 40
      loaded    == ld.raised = "none" /\ ~ld.stop
      enc       == input_data_of(a, s, t, l)                 \* lines 87-93
      encoded   == loaded /\ enc.raised = "none"
      predicted == encoded /\ btn                            \* line 101
      p         == IF predicted THEN predict_proba(ld.model, enc.df) ELSE -1
      risk      == RiskBlock(p)
      shap      == ShapBlock(fail)
      completed == encoded /\ (btn => shap.raised = "none")  \* lines 155-156
      steps     == <<"load">>
                     \o (IF loaded THEN <<"widgets">> ELSE <<>>)
                     \o (IF encoded THEN <<"encode">> ELSE <<>>)
                     \o (IF predicted THEN <<"infer", "classify", "explain">> ELSE <<>>)
                     \o (IF completed THEN <<"footer">> ELSE <<>>)
  IN  /\ cache' = ld.cache
      /\ age' = a
      /\ sex' = s
      /\ t_stage' = t
      /\ lnr' = l
      /\ screen' =
           [exception |-> IF ld.raised # "none" THEN ld.raised
                          ELSE IF loaded /\ enc.raised # "none" THEN enc.raised
                          ELSE IF predicted THEN shap.raised ELSE "none",
            loadError |-> ld.error,
            header |-> loaded,
            controls |-> loaded,
            probText |-> IF predicted THEN risk.probText ELSE "",
            probBox |-> IF predicted THEN risk.probBox ELSE "none",
            riskLabel |-> IF predicted THEN risk.riskLabel ELSE "none",
            recommendation |-> IF predicted THEN risk.recommendation ELSE "none",
            plot |-> IF predicted THEN shap.plot ELSE "none",
            welcome |-> encoded /\ ~btn,
            footer |-> completed]
      /\ lastRun' =
           [event |-> event,
            fileRead |-> ld.read,
            fileKind |-> IF ld.read THEN artifact.kind ELSE "unread",
            model |-> ld.model,
            steps |-> steps,
            input_data |-> IF encoded THEN enc.df ELSE NoData,
            inferArg |-> IF predicted THEN enc.df ELSE NoData,
            explainArg |-> IF predicted /\ shap.explained THEN enc.df ELSE NoData,
            shapFail |-> IF predicted THEN fail ELSE "none",
            prob |-> p,
            recorded |-> rec /\ predicted]
      /\ remembered' =
           IF rec /\ predicted
             THEN [set |-> TRUE, input_data |-> enc.df, prob |-> p,
                   riskLabel |-> risk.riskLabel]
             ELSE remembered
      /\ UNCHANGED artifact

\* --------------------------------------------------------------- actions ----
\* The browser opens or refreshes the page: a new session, widgets at their
\* defaults (value=65, first option of each selectbox, value=0.30).
Reload ==
  RunScript("reload", DefaultAge, SexOptions[1], TOptions[1], DefaultLnr,
            FALSE, "none", FALSE)

\* A widget can be operated only when the last run rendered it.
ChangeAge(ages) ==
  /\ screen.controls
  /\ \E v \in ages \ {age} :
       RunScript("change", v, sex, t_stage, lnr, FALSE, "none", FALSE)

ChangeSex ==
  /\ screen.controls
  /\ \E v \in Range(SexOptions) \ {sex} :
       RunScript("change", age, v, t_stage, lnr, FALSE, "none", FALSE)

ChangeTStage ==
  /\ screen.controls
  /\ \E v \in Range(TOptions) \ {t_stage} :
       RunScript("change", age, sex, v, lnr, FALSE, "none", FALSE)

ChangeLnr(lnrs) ==
  /\ screen.controls
  /\ \E v \in lnrs \ {lnr} :
       RunScript("change", age, sex, t_stage, v, FALSE, "none", FALSE)

\* st.sidebar.button returns True only in the run its click triggers.
ClickAssess(recs) ==
  /\ screen.controls
  /\ \E fail \in ShapFailures, rec \in recs :
       RunScript("click", age, sex, t_stage, lnr, TRUE, fail, rec)

\* The environment replaces, damages or removes the artifact file.
ReplaceArtifact ==
  /\ \E f \in Artifacts \ {artifact} : artifact' = f
  /\ UNCHANGED <<cache, age, sex, t_stage, lnr, screen, lastRun, remembered>>

Next ==
  \/ Reload
  \/ ChangeAge(AgeValues)
  \/ ChangeSex
  \/ ChangeTStage
  \/ ChangeLnr(LnrValues)
  \/ ClickAssess({FALSE})
  \/ ReplaceArtifact

Spec == Init /\ [][Next]_vars

\* The same program with the artifact left as it is, over fewer widget values,
\* and with one earlier prediction kept for comparison.
NextIdem ==
  \/ Reload
  \/ ChangeAge(IdemAges)
  \/ ChangeSex
  \/ ChangeTStage
  \/ ChangeLnr(IdemLnrs)
  \/ ClickAssess(BOOLEAN)

SpecIdem == Init /\ [][NextIdem]_vars

TypeOK ==
  /\ artifact \in Artifacts
  /\ cache \in Classifiers \cup {NoClf}
  /\ age \in AgeDomain
  /\ sex \in Range(SexOptions)
  /\ t_stage \in Range(TOptions)
  /\ lnr \in LnrDomain

\* ============================================================ properties ====
\* The numeral n of the label "Tn".
Numeral(label) == CHOOSE n \in 1 .. 9 : label = "T" \o ToString(n)

\* The feature vector the current widget values must encode to.
ExpectedRow ==
  <<age, IF sex = "Male" THEN 1 ELSE 0, Numeral(t_stage), lnr>>

PredictionShown == screen.riskLabel # "none"

FullPipeline ==
  <<"load", "widgets", "encode", "infer", "classify", "explain", "footer">>

\* C1: every run that renders the widgets encodes their values as the 4-tuple
\* (Age_Numeric, Sex_Code, T_Code, LNR) = (age, 1 for Male / 0 for Female,
\* numeral of the T label, lnr), in that column order and under those names.
C1_EncoderTable ==
  screen.controls =>
    /\ lastRun.input_data # NoData
    /\ lastRun.input_data.columns = <<"Age_Numeric", "Sex_Code", "T_Code", "LNR">>
    /\ lastRun.input_data.row = ExpectedRow

C1_Witness ==
  /\ screen.controls
  /\ sex = "Male"
  /\ t_stage = "T3"
  /\ lastRun.input_data # NoData
  /\ lastRun.input_data.row = <<MaxAge, 1, 3, MaxLnr>>

\* C2: for every probability returned, the label is HIGH_RISK iff p >= 0.546
\* and LOW_RISK iff p < 0.546 (so HIGH_RISK at exactly 0.546); exactly one
\* label is shown, with the recommendation keyed to it.
C2_ThresholdRule ==
  lastRun.prob # -1 =>
    /\ screen.riskLabel \in {"HIGH_RISK", "LOW_RISK"}
    /\ screen.riskLabel = "HIGH_RISK" <=> lastRun.prob >= 5460
    /\ screen.riskLabel = "LOW_RISK" <=> lastRun.prob < 5460
    /\ screen.recommendation =
         (IF screen.riskLabel = "HIGH_RISK" THEN "intensive" ELSE "standard")
    /\ screen.probBox = (IF screen.riskLabel = "HIGH_RISK" THEN "error" ELSE "success")
    /\ screen.probText # ""

C2_Witness ==
  /\ lastRun.prob = 5460
  /\ screen.riskLabel = "HIGH_RISK"
  /\ screen.recommendation = "intensive"

C4_EveryLoadFailureReported ==
  lastRun.fileKind \in {"missing", "corrupt", "incompatible"} =>
    /\ screen.loadError
    /\ screen.exception = "none"
    /\ ~screen.controls
    /\ lastRun.inferArg = NoData

\* C5: when the SHAP block fails during a prediction run, the probability and
\* the risk label of that run are still shown, the plot is replaced by a
\* message, and the run reaches the footer.
C5_ShapFailureRecoverable ==
  lastRun.shapFail # "none" =>
    /\ lastRun.prob # -1
    /\ screen.probText = FormatPct(lastRun.prob)
    /\ screen.riskLabel \in {"HIGH_RISK", "LOW_RISK"}
    /\ screen.plot = "shap_error"
    /\ screen.exception = "none"
    /\ screen.footer
    /\ lastRun.steps = FullPipeline

C5_Witness ==
  /\ lastRun.shapFail = "values"
  /\ screen.plot = "shap_error"
  /\ screen.riskLabel = "HIGH_RISK"
  /\ screen.footer

ScenarioRun ==
  /\ lastRun.inferArg # NoData
  /\ age = 65
  /\ sex = "Female"
  /\ t_stage = "T2"
  /\ lnr = 10

\* C7 as stated: the probability is shown with two decimals; for age=65,
\* Female, T2, lnr=0.10 the vector is (65,0,2,0.10), p=0.30 shows LOW_RISK and
\* "30.00%", p=0.60 shows HIGH_RISK and "60.00%".
C7_TwoDecimals ==
  ScenarioRun =>
    /\ lastRun.inferArg.row = <<65, 0, 2, 10>>
    /\ lastRun.prob = 3000 => (screen.riskLabel = "LOW_RISK" /\ screen.probText = "30.00%")
    /\ lastRun.prob = 6000 => (screen.riskLabel = "HIGH_RISK" /\ screen.probText = "60.00%")

\* C7 as amended: the probability is shown as a percentage with one decimal,
\* the nearest to 100*p; in the scenario p=0.30 shows LOW_RISK and "30.0%",
\* p=0.60 shows HIGH_RISK and "60.0%".
C7_OneDecimal ==
  /\ lastRun.prob # -1 =>
       \E w \in 0 .. 100, d \in 0 .. 9 :
         /\ screen.probText = ToString(w) \o "." \o ToString(d) \o "%"
         /\ (100 * w + 10 * d) - lastRun.prob <= 5
         /\ lastRun.prob - (100 * w + 10 * d) <= 5
  /\ ScenarioRun =>
       /\ lastRun.inferArg.row = <<65, 0, 2, 10>>
       /\ lastRun.prob = 3000 => (screen.riskLabel = "LOW_RISK" /\ screen.probText = "30.0%")
       /\ lastRun.prob = 6000 => (screen.riskLabel = "HIGH_RISK" /\ screen.probText = "60.0%")

C7_Witness ==
  /\ ScenarioRun
  /\ lastRun.prob = 6000
  /\ screen.probText = "60.0%"
  /\ screen.riskLabel = "HIGH_RISK"

\* C8: once load_model has returned a classifier, no later run reads the file
\* again and every later run uses that same classifier object, which no run
\* replaces, whatever happens to the file.
C8_LoadedOnce ==
  [][cache # NoClf =>
       /\ cache' = cache
       /\ artifact' = artifact => (~lastRun'.fileRead /\ lastRun'.model = cache)]_vars

C8_Witness ==
  /\ cache # NoClf
  /\ artifact.kind = "ok"
  /\ artifact.clf # cache
  /\ lastRun.event = "click"
  /\ lastRun.explainArg # NoData
  /\ ~lastRun.fileRead
  /\ lastRun.model = cache

\* C9 as stated: every user action, a widget change as well as a click on the
\* button, runs encode, infer, classify and explain in that order, and the
\* display then carries the probability and label of the current inputs.
C9_EveryActionPredicts ==
  lastRun.event \in {"change", "click"} =>
    /\ lastRun.steps = FullPipeline
    /\ lastRun.inferArg # NoData
    /\ lastRun.inferArg.row = ExpectedRow
    /\ PredictionShown

\* C9 as amended: every user action reruns the script and the encoder; infer,
\* classify and explain follow, in that order, only in the run started by a
\* click on the button.  A run started by a widget change shows the welcome
\* text and no result, so a displayed probability and label always belong to
\* the current input values.
C9_ClickPredicts ==
  /\ lastRun.event = "click" =>
       /\ lastRun.steps = FullPipeline
       /\ PredictionShown
  /\ lastRun.event = "change" =>
       /\ lastRun.steps = <<"load", "widgets", "encode", "footer">>
       /\ lastRun.input_data # NoData
       /\ lastRun.input_data.row = ExpectedRow
       /\ lastRun.inferArg = NoData
       /\ screen.welcome
       /\ ~PredictionShown
       /\ screen.probText = ""
       /\ screen.plot = "none"
  /\ PredictionShown =>
       /\ lastRun.inferArg # NoData
       /\ lastRun.inferArg.row = ExpectedRow
       /\ screen.probText = FormatPct(lastRun.prob)

C9_Witness ==
  /\ lastRun.event = "change"
  /\ lnr # DefaultLnr
  /\ age # DefaultAge
  /\ screen.welcome
  /\ ~PredictionShown

\* C10: every feature vector handed to predict_proba or to the explainer has
\* Age_Numeric in 18..100, Sex_Code in {0,1}, T_Code in {1,2,3,4} and LNR in
\* [0.0, 1.0], and the T-stage lookup never fails.
InRange(df) ==
  /\ df.columns = <<"Age_Numeric", "Sex_Code", "T_Code", "LNR">>
  /\ df.row[1] \in 18 .. 100
  /\ df.row[2] \in {0, 1}
  /\ df.row[3] \in {1, 2, 3, 4}
  /\ df.row[4] \in 0 .. 100

C10_InputsInRange ==
  /\ lastRun.inferArg # NoData => InRange(lastRun.inferArg)
  /\ lastRun.explainArg # NoData => InRange(lastRun.explainArg)
  /\ screen.exception # "KeyError"
  /\ t_stage \in {"T1", "T2", "T3", "T4"}

C10_Witness ==
  /\ lastRun.inferArg # NoData
  /\ lastRun.explainArg # NoData
  /\ lastRun.inferArg.row[1] = 100
  /\ lastRun.inferArg.row[3] = 4
  /\ lastRun.inferArg.row[4] = 100

====
